---- MODULE Spec2Model ----
(***************************************************************************)
(* Model of scripts/01_apply_preselection.py: trigger-path assignment,     *)
(* trigger decision, sequential filtering, region branching and the batch  *)
(* loop of the stage-1 preselection script.                                *)
(*                                                                         *)
(* Real numbers are exact rationals <<numerator, denominator>> with a      *)
(* positive denominator, or integers in the unit stated at the definition. *)
(***************************************************************************)
EXTENDS Integers, Sequences, FiniteSets, TLC

\* ------------------------------------------------------------------------
\* Bounds of the model
\* ------------------------------------------------------------------------
MaxFrac == 7
MaxPaths == 3
RandGrid == 8
MaxBins == 2
MaxPt == 6
MaxNameLen == 3
MaxEvents == 2
MaxSeed == 1
MaxThreads == 2
MaxSamples == 3

\* ------------------------------------------------------------------------
\* Rational helpers
\* ------------------------------------------------------------------------
RatLt(a, b) == a[1] * b[2] < b[1] * a[2]

RatEq(a, b) == a[1] * b[2] = b[1] * a[2]

RatLe(a, b) == a[1] * b[2] <= b[1] * a[2]

RECURSIVE Gcd(_, _)
Gcd(a, b) == IF b = 0 THEN a ELSE Gcd(b, a % b)

\* canonical form, so that equal values are equal states
RatNorm(a) ==
    LET g == Gcd(IF a[1] < 0 THEN -a[1] ELSE a[1], a[2])
    IN  IF a[1] = 0 THEN <<0, 1>> ELSE <<a[1] \div g, a[2] \div g>>

RatMul(a, b) == RatNorm(<<a[1] * b[1], a[2] * b[2]>>)

RatAdd(a, b) == RatNorm(<<a[1] * b[2] + b[1] * a[2], a[2] * b[2]>>)

RatOne == <<1, 1>>

RatZero == <<0, 1>>

RECURSIVE SeqSum(_)
SeqSum(s) == IF s = <<>> THEN 0 ELSE Head(s) + SeqSum(Tail(s))

\* ------------------------------------------------------------------------
\* declare_cpp_helper: catalog -> (paths, cdf), and the C++ assign_path
\* ------------------------------------------------------------------------
\* paths = list(trigger_data.keys())
CatalogPaths(trigger_data) == [i \in 1..Len(trigger_data) |-> trigger_data[i].key]

\* fractions = [trigger_data[k][0] for k in paths]
CatalogFractions(trigger_data) == [i \in 1..Len(trigger_data) |-> trigger_data[i].frac]

\* cdf = np.cumsum(np.array(fractions) / sum(fractions)); cdf[i] = <<cum_i, total>>
CatalogCdf(trigger_data) ==
    LET fr == CatalogFractions(trigger_data)
    IN  [i \in 1..Len(fr) |-> <<SeqSum(SubSeq(fr, 1, i)), SeqSum(fr)>>]

\* for (i = 0; i < cdf.size(); ++i) if (rand < cdf[i]) return paths[i];
RECURSIVE assign_scan(_, _, _, _)
assign_scan(rand, paths, cdf, i) ==
    IF i > Len(cdf) THEN paths[Len(paths)]
    ELSE IF RatLt(rand, cdf[i]) THEN paths[i]
    ELSE assign_scan(rand, paths, cdf, i + 1)

assign_path_le(rand, trigger_data) ==
    LET cdf == CatalogCdf(trigger_data)
        hit == {i \in 1..Len(cdf) : ~RatLt(cdf[i], rand)}
    IN  IF hit = {} THEN trigger_data[Len(trigger_data)].key
        ELSE trigger_data[CHOOSE i \in hit : \A j \in hit : i <= j].key

assign_path(rand, trigger_data) ==
    assign_scan(rand, CatalogPaths(trigger_data), CatalogCdf(trigger_data), 1)

\* ------------------------------------------------------------------------
\* build_sf_expression and the weight columns
\* ------------------------------------------------------------------------
\* A bin is [ptmin, ptmax, val, unc]; ptmax is [inf |-> TRUE] for float('inf')
\* or [inf |-> FALSE, at |-> n].  pt, ptmin and ptmax are integers (GeV); val
\* and unc are rationals.
Infinite == [inf |-> TRUE, at |-> 0]

Finite(n) == [inf |-> FALSE, at |-> n]

\* cond = '(pt >= ptmin)' if ptmax == inf else '(pt >= ptmin && pt < ptmax)'
SfCond(bin, pt) ==
    IF bin.ptmax.inf THEN pt >= bin.ptmin
    ELSE pt >= bin.ptmin /\ pt < bin.ptmax.at

\* The two expression strings: ' : '.join(parts) + ' : <default>', each part
\* being 'cond ? value'.  An expression is kept as its parts and its default.
build_sf_expression(sf_bins) ==
    [val |-> [parts |-> [i \in 1..Len(sf_bins) |-> [bin |-> sf_bins[i], res |-> sf_bins[i].val]],
              default |-> RatOne],
     unc |-> [parts |-> [i \in 1..Len(sf_bins) |-> [bin |-> sf_bins[i], res |-> sf_bins[i].unc]],
              default |-> RatZero]]

\* With no part the string is ' : 1.0' (' : 0.0'), which is no C++ expression:
\* Define() raises when it compiles it.
ExprCompiles(expr) == Len(expr.parts) > 0

\* c1 ? v1 : c2 ? v2 : ... : default   (?: associates to the right)
RECURSIVE EvalTernary(_, _, _)
EvalTernary(expr, pt, i) ==
    IF i > Len(expr.parts) THEN expr.default
    ELSE IF SfCond(expr.parts[i].bin, pt) THEN expr.parts[i].res
    ELSE EvalTernary(expr, pt, i + 1)

\* Lines 66-79: whether the four Define() calls succeed
WeightsDefinable(is_data, sf_bins) ==
    is_data \/ ( /\ ExprCompiles(build_sf_expression(sf_bins).val)
                 /\ ExprCompiles(build_sf_expression(sf_bins).unc) )

\* Lines 66-79: the weight columns of one event.  ev.FONLLweight is the input
\* column, read only when the input has it.
WeightColumns(is_data, sf_bins, has_fonll, ev) ==
    IF is_data
    THEN [FONLLweight |-> RatOne, trigger_sf_value |-> RatOne,
          trigger_sf_error |-> RatZero, total_weight |-> RatOne]
    ELSE LET e  == build_sf_expression(sf_bins)
             w  == IF has_fonll THEN ev.FONLLweight ELSE RatOne
             sf == EvalTernary(e.val, ev.pt, 1)
         IN  [FONLLweight |-> w, trigger_sf_value |-> sf,
              trigger_sf_error |-> EvalTernary(e.unc, ev.pt, 1),
              total_weight |-> RatMul(w, sf)]

\* ------------------------------------------------------------------------
\* Trigger decision (lines 85-126): the filter string, evaluated on one event
\* ------------------------------------------------------------------------
\* ev.l1[k], ev.hlt[k]: the values of path k's L1 and HLT expressions
CatalogKeys(trigger_data) == {trigger_data[i].key : i \in 1..Len(trigger_data)}

\* Define(f'{key}_pass', f'(assigned_path == "{key}") && ({l1} && {hlt})')
PassCol_any(key, assigned_path, ev) == ev.l1[key] /\ ev.hlt[key]

PassCol(key, assigned_path, ev) ==
    (assigned_path = key) /\ (ev.l1[key] /\ ev.hlt[key])

\* the superseded "N-1" policy kept in the comment of lines 109-113
SingleFilter_exclusive(target, trigger_data, ev) ==
    /\ ~(ev.l1[target] /\ ev.hlt[target])
    /\ \E k \in CatalogKeys(trigger_data) : ev.l1[k] /\ ev.hlt[k]

\* simulation, single: trig_filter_string = f'({l1_t} && {hlt_t})'
SingleFilter(target, trigger_data, ev) == (ev.l1[target] /\ ev.hlt[target])

\* data: the target's 'l1 && hlt' in single mode, else the OR over all paths
DataFilter(mode, target, trigger_data, ev) ==
    IF mode = "single"
    THEN ev.l1[target] /\ ev.hlt[target]
    ELSE \E k \in CatalogKeys(trigger_data) : (ev.l1[k] /\ ev.hlt[k])

\* trig_filter_string, by case (the L1 and HLT expressions of the catalog are
\* column names).  assigned_path is read in mixture mode only.
TrigFilter(is_data, mode, target, trigger_data, assigned_path, ev) ==
    IF ~is_data /\ mode = "mix"
    THEN \E k \in CatalogKeys(trigger_data) : PassCol(k, assigned_path, ev)
    ELSE IF ~is_data /\ mode = "single"
    THEN SingleFilter(target, trigger_data, ev)
    ELSE DataFilter(mode, target, trigger_data, ev)

\* True when the trigger filter reads the columns rand and assigned_path
UsesAssignment(is_data, mode) == ~is_data /\ mode = "mix"

\* ------------------------------------------------------------------------
\* The seeded generator.  gRandom is one process-wide generator whose state
\* is an integer in 0..RandGrid-1; a draw is <<state, RandGrid>> in [0, 1).
\* ------------------------------------------------------------------------
\* ROOT.gRandom.SetSeed(config['random_seed'])
SetSeed(seed) == seed % RandGrid

\* gRandom->Rndm(): the next state, a fixed function of the state it read
Rndm(state) == (state + 5) % RandGrid

\* ------------------------------------------------------------------------
\* The filter chain and the event loops of process_file (lines 133-188)
\* ------------------------------------------------------------------------
\* A cut expression is the set of values of its observable that it accepts;
\* the expression "1" accepts them all.
ObsValues == {0, 1}

PassesCut(value, cut) == value \in cut

\* common checkpoints, in the order lines 148-153 evaluate them
CommonStages ==
    << [name |-> "Before", region |-> ""],
       [name |-> "After_Triplet", region |-> ""],
       [name |-> "After_Trigger", region |-> ""],
       [name |-> "SumWeights_Trigger", region |-> ""],
       [name |-> "After_PreselBDT", region |-> ""],
       [name |-> "After_AntiD0", region |-> ""] >>

\* every GetValue() and every Snapshot() is an event loop of its own: the
\* six common sums, then for each region the final sum and the snapshot
StageList(regions) ==
    CommonStages \o
    [i \in 1..(2 * Len(regions)) |->
        [name |-> IF i % 2 = 1 THEN "After_Q2" ELSE "Snapshot",
         region |-> regions[(i + 1) \div 2]]]

\* number of Filter() nodes between df and the node the stage reads
Depth(stage) ==
    CASE stage.name = "Before" -> 0
      [] stage.name = "After_Triplet" -> 1
      [] stage.name \in {"After_Trigger", "SumWeights_Trigger"} -> 2
      [] stage.name = "After_PreselBDT" -> 3
      [] stage.name = "After_AntiD0" -> 4
      [] OTHER -> 5

\* q2_cut_str = config['q2_cuts'].get(region, "1")
Q2Cut(config, region) ==
    IF region \in DOMAIN config.q2_cuts THEN config.q2_cuts[region] ELSE ObsValues

\* A defined column is computed for an entry only when a filter or the action
\* of the running loop reads it: rand and assigned_path are read by the
\* trigger filter, which runs only on entries that passed the triplet filter.
ReadsRand(file_info, config, args, stage, ev) ==
    /\ UsesAssignment(file_info.is_data, args.mode)
    /\ Depth(stage) >= 2
    /\ PassesCut(ev.triplet, config.preselection.triplet)

\* whether the entry reaches the node the stage reads
Survives(file_info, config, args, stage, ev, assigned_path) ==
    LET d == Depth(stage)
    IN  /\ d >= 1 => PassesCut(ev.triplet, config.preselection.triplet)
        /\ d >= 2 => TrigFilter(file_info.is_data, args.mode, args.target_trigger,
                                config.trigger.fractions, assigned_path, ev)
        /\ d >= 3 => PassesCut(ev.bdt_score, config.preselection.bdt_score)
        /\ d >= 4 => PassesCut(ev.anti_d0, config.preselection.anti_d0)
        /\ d >= 5 => PassesCut(ev.q2, Q2Cut(config, stage.region))

\* Sum('FONLLweight') for the first three checkpoints, Sum('total_weight') after
Summand(file_info, config, stage, ev) ==
    LET c == WeightColumns(file_info.is_data, config.trigger_sf_params.bins,
                           file_info.has_fonll, ev)
    IN  IF stage.name \in {"Before", "After_Triplet", "After_Trigger"}
        THEN c.FONLLweight ELSE c.total_weight

\* 'Trigger_Mode': args.target_trigger if args.mode == 'single' else 'Mixture'
TriggerModeLabel(args) == IF args.mode = "single" THEN args.target_trigger ELSE "Mixture"

\* exceptions of lines 66-126: an expression that does not compile, or the
\* target missing from the catalog
\* exceptions of lines 66-140: a KeyError on a missing config key or on a
\* target that the catalog does not hold, or an expression that does not
\* compile.  config.missing is the set of top-level keys the file lacks.
SetupRaises(file_info, config, args) ==
    \/ ~file_info.is_data /\ "trigger_sf_params" \in config.missing
    \/ ~WeightsDefinable(file_info.is_data, config.trigger_sf_params.bins)
    \/ "trigger" \in config.missing
    \/ UsesAssignment(file_info.is_data, args.mode) /\ "random_seed" \in config.missing
    \/ /\ args.mode = "single"
       /\ args.target_trigger \notin CatalogKeys(config.trigger.fractions)
    \/ "preselection" \in config.missing

\* ------------------------------------------------------------------------
\* Output naming (lines 157-162).  A string is the sequence of its pieces;
\* ".root" is one piece and no other piece contains it.
\* ------------------------------------------------------------------------
\* mode_suffix = f"_{args.target_trigger}" if args.mode == 'single' else "_mix"
mode_suffix(mode, target) ==
    IF mode = "single" THEN <<"_", target>> ELSE <<"_", "mix">>

\* str.replace('.root', new): every occurrence is replaced
RECURSIVE ReplaceRoot(_, _)
ReplaceRoot(name, new) ==
    IF name = <<>> THEN <<>>
    ELSE IF Head(name) = ".root" THEN new \o ReplaceRoot(Tail(name), new)
    ELSE <<Head(name)>> \o ReplaceRoot(Tail(name), new)

\* out_name = basename(input_path).replace('.root', f'_skimmed{mode_suffix}.root')
out_name(basename, mode, target) ==
    ReplaceRoot(basename, <<"_skimmed">> \o mode_suffix(mode, target) \o <<".root">>)

\* out_path = join(join(base_output_dir, region), out_name)
out_path(base_output_dir, region, basename, mode, target) ==
    <<base_output_dir, "/", region, "/">> \o out_name(basename, mode, target)

\* ------------------------------------------------------------------------
\* State
\* ------------------------------------------------------------------------
VARIABLES
    fn_in,          \* arguments of the function that is applied (a record)
    fn_out,         \* its results so far (a sequence, empty before the call)
    file_info,      \* the manifest entry process_file is given
    config,         \* the configuration
    args,           \* the command line: mode, target_trigger
    nthreads,       \* worker threads of the implicit-MT pool
    events,         \* the input tree "Events": one record per entry
    gRandom,        \* state of the process-wide generator
    pc,             \* where process_file is
    si,             \* index in StageList of the event loop that is running
    taken,          \* entries of the running loop handed to a worker
    workers,        \* the busy workers: the entry each holds and the generator state it read
    cols,           \* per entry, this loop's <<rand, assigned_path>> once computed
    acc,            \* the running Sum() of the loop
    kept,           \* entries that reached the loop's node
    counts,         \* count_before, count_triplet, count_trig, sow_trig, sow_presel, sow_antid0
    file_results,   \* the rows appended so far
    snapshots,      \* the outputs written so far
    first_assign,   \* per entry, <<assigned_path>> as first computed in this execution
    run,            \* 1 in the first execution of the script, 2 in a repeated one
    prev_run,       \* what the first execution used and assigned
    sample_list,    \* batch: the manifest
    idx,            \* batch: index of the entry the loop is at
    all_results,    \* batch: rows collected so far
    batch_pc,       \* batch: "loop", "raised" or "written"
    cutflow         \* batch: the rows of the written cutflow file

fnVars == <<fn_in, fn_out>>

inputVars == <<file_info, config, args, nthreads, events>>

loopVars == <<si, taken, workers, cols, acc, kept>>

outVars == <<counts, file_results, snapshots, first_assign>>

pipeVars == <<inputVars, gRandom, pc, loopVars, outVars, run, prev_run>>

batchVars == <<sample_list, idx, all_results, batch_pc, cutflow>>

vars == <<fnVars, pipeVars, batchVars>>

FnIdle == fn_in = <<>> /\ fn_out = <<>>

PipeIdle ==
    /\ file_info = <<>> /\ config = <<>> /\ args = <<>> /\ nthreads = 0 /\ events = <<>>
    /\ gRandom = 0 /\ pc = "" /\ si = 0 /\ taken = {} /\ workers = {} /\ cols = <<>>
    /\ acc = RatZero /\ kept = {} /\ counts = <<>> /\ file_results = <<>>
    /\ snapshots = <<>> /\ first_assign = <<>> /\ run = 0 /\ prev_run = <<>>

BatchIdle ==
    /\ sample_list = <<>> /\ idx = 0 /\ all_results = <<>> /\ batch_pc = "" /\ cutflow = <<>>

PathNames == <<"A", "B", "C", "D">>

\* catalogs in declaration order with fractions in 0..maxfrac summing to > 0
Catalogs(minlen, maxfrac) ==
    {td \in UNION { {[i \in 1..n |-> [key |-> PathNames[i], frac |-> f[i]]] :
                        f \in [1..n -> 0..maxfrac]} : n \in minlen..MaxPaths} :
        SeqSum(CatalogFractions(td)) > 0}

ExampleDraws == {<<29, 100>>, <<30, 100>>, <<31, 100>>}

Draws == {<<n, RandGrid>> : n \in 0..RandGrid} \cup ExampleDraws

\* ------------------------------------------------------------------------
\* assign_path as a function of its argument
\* ------------------------------------------------------------------------
InitAssign ==
    /\ \E td \in Catalogs(1, MaxFrac) :
       \E r \in Draws \cup {CatalogCdf(td)[i] : i \in 1..Len(td)} :
           fn_in = [trigger_data |-> td, rand |-> r]
    /\ fn_out = <<>>
    /\ PipeIdle /\ BatchIdle

CallAssignPath ==
    /\ fn_out = <<>>
    /\ fn_out' = <<assign_path(fn_in.rand, fn_in.trigger_data)>>
    /\ UNCHANGED <<fn_in, pipeVars, batchVars>>

NextAssign == CallAssignPath

SpecAssign == InitAssign /\ [][NextAssign]_vars

\* C3: assign_path returns the first path, in declaration order, whose
\* cumulative normalized fraction is strictly greater than the draw, and the
\* last path when none is; a draw equal to a boundary goes to the next path
\* (catalog {A: 0.3, B: 0.7}: 0.29 -> A, 0.3 -> B, 0.31 -> B).
FirstAbove(rand, trigger_data) ==
    LET fr == CatalogFractions(trigger_data)
        above == {i \in 1..Len(fr) :
                    rand[1] * SeqSum(fr) < SeqSum(SubSeq(fr, 1, i)) * rand[2]}
    IN  IF above = {} THEN Len(fr) ELSE CHOOSE i \in above : \A j \in above : i <= j

IsExampleCatalog(td) ==
    Len(td) = 2 /\ td[1].frac = 3 /\ td[2].frac = 7

AssignFirstStrictlyAbove ==
    fn_out # <<>> =>
        /\ fn_out[1] = fn_in.trigger_data[FirstAbove(fn_in.rand, fn_in.trigger_data)].key
        /\ IsExampleCatalog(fn_in.trigger_data) =>
              /\ fn_in.rand = <<29, 100>> => fn_out[1] = "A"
              /\ fn_in.rand = <<30, 100>> => fn_out[1] = "B"
              /\ fn_in.rand = <<31, 100>> => fn_out[1] = "B"

\* a draw exactly on the 0.3 boundary of the catalog {A: 0.3, B: 0.7} was
\* routed to B
AssignBoundaryWitness ==
    /\ fn_out = <<"B">>
    /\ IsExampleCatalog(fn_in.trigger_data)
    /\ fn_in.rand = <<30, 100>>

\* ------------------------------------------------------------------------
\* The weight columns as a function of the sample kind, the bins and the event
\* ------------------------------------------------------------------------
SfPoints == { [val |-> <<11, 10>>, unc |-> <<1, 20>>],
              [val |-> <<1, 1>>,   unc |-> <<0, 1>>],
              [val |-> <<9, 10>>,  unc |-> <<1, 10>>] }

SfBins ==
    { [ptmin |-> lo, ptmax |-> hi, val |-> p.val, unc |-> p.unc] :
        lo \in {0, 5}, hi \in {Finite(5), Infinite}, p \in SfPoints }

SfBinLists == UNION {[1..n -> SfBins] : n \in 0..MaxBins}

GenWeights == {<<1, 2>>, <<2, 1>>}

InitWeight ==
    /\ fn_in \in [is_data : BOOLEAN, sf_bins : SfBinLists, has_fonll : BOOLEAN,
                  ev : [FONLLweight : GenWeights, pt : -1..MaxPt]]
    /\ fn_in.is_data => ~fn_in.has_fonll
    /\ fn_out = <<>>
    /\ PipeIdle /\ BatchIdle

\* Lines 66-79 run and the columns are evaluated for the event
DefineWeights ==
    /\ fn_out = <<>>
    /\ WeightsDefinable(fn_in.is_data, fn_in.sf_bins)
    /\ fn_out' = <<"defined",
                   WeightColumns(fn_in.is_data, fn_in.sf_bins, fn_in.has_fonll, fn_in.ev)>>
    /\ UNCHANGED <<fn_in, pipeVars, batchVars>>

\* Define() raises on an expression that does not compile
DefineWeightsRaises ==
    /\ fn_out = <<>>
    /\ ~WeightsDefinable(fn_in.is_data, fn_in.sf_bins)
    /\ fn_out' = <<"raised">>
    /\ UNCHANGED <<fn_in, pipeVars, batchVars>>

NextWeight == DefineWeights \/ DefineWeightsRaises

SpecWeight == InitWeight /\ [][NextWeight]_vars

\* the bins whose interval [ptmin, ptmax) holds pt
BinsHolding(sf_bins, pt) ==
    {i \in 1..Len(sf_bins) :
        /\ sf_bins[i].ptmin <= pt
        /\ sf_bins[i].ptmax.inf \/ pt < sf_bins[i].ptmax.at}

\* the claimed (value, error): the first holding bin's, else (1.0, 0.0)
ClaimedSf(sf_bins, pt) ==
    LET h == BinsHolding(sf_bins, pt)
    IN  IF h = {} THEN <<RatOne, RatZero>>
        ELSE LET i == CHOOSE i \in h : \A j \in h : i <= j
             IN  <<sf_bins[i].val, sf_bins[i].unc>>

\* C9: for data total_weight is 1.0 whatever the bins; for simulation
\* total_weight is the generator weight (1.0 without a FONLLweight column)
\* times the scale factor of the first bin with ptmin <= pt < ptmax, the
\* scale factor and its error being (1.0, 0.0) when pt is in no bin.
WeightsAsClaimed ==
    fn_out # <<>> =>
        /\ fn_out[1] = "defined"
        /\ LET wc == fn_out[2]
               sf   == ClaimedSf(fn_in.sf_bins, fn_in.ev.pt)
               gen  == IF fn_in.has_fonll THEN fn_in.ev.FONLLweight ELSE RatOne
           IN  IF fn_in.is_data
               THEN RatEq(wc.total_weight, RatOne)
               ELSE /\ RatEq(wc.trigger_sf_value, sf[1])
                    /\ RatEq(wc.trigger_sf_error, sf[2])
                    /\ RatEq(wc.total_weight, RatMul(gen, sf[1]))

\* the same, for the samples whose weight columns could be defined
WeightsAsClaimedWhenDefined ==
    (fn_out # <<>> /\ fn_out[1] = "defined") =>
        LET wc == fn_out[2]
            sf   == ClaimedSf(fn_in.sf_bins, fn_in.ev.pt)
            gen  == IF fn_in.has_fonll THEN fn_in.ev.FONLLweight ELSE RatOne
        IN  IF fn_in.is_data
            THEN RatEq(wc.total_weight, RatOne)
            ELSE /\ RatEq(wc.trigger_sf_value, sf[1])
                 /\ RatEq(wc.trigger_sf_error, sf[2])
                 /\ RatEq(wc.total_weight, RatMul(gen, sf[1]))

\* ------------------------------------------------------------------------
\* The trigger decision as a function of the mode, the catalog and the event
\* ------------------------------------------------------------------------
TriggerInputs ==
    UNION { [is_data : BOOLEAN, mode : {"mix", "single"}, target : CatalogKeys(td),
             trigger_data : {td}, rand : Draws,
             ev : [l1 : [CatalogKeys(td) -> BOOLEAN], hlt : [CatalogKeys(td) -> BOOLEAN]]] :
            td \in Catalogs(2, 1) }

InitTrigger ==
    /\ fn_in \in TriggerInputs
    /\ fn_out = <<>>
    /\ PipeIdle /\ BatchIdle

\* One event goes through Define('assigned_path'), the Define('<key>_pass')
\* columns and the trigger filter; fn_out = <<assigned_path, pass columns,
\* filter result>>.  Outside mixture mode no column is defined.
EvalTrigger ==
    /\ fn_out = <<>>
    /\ LET td  == fn_in.trigger_data
           mix == UsesAssignment(fn_in.is_data, fn_in.mode)
           ap  == IF mix THEN <<assign_path(fn_in.rand, td)>> ELSE <<>>
           a   == IF mix THEN ap[1] ELSE ""
       IN  fn_out' = << ap,
                        IF mix THEN {k \in CatalogKeys(td) : PassCol(k, a, fn_in.ev)} ELSE {},
                        TrigFilter(fn_in.is_data, fn_in.mode, fn_in.target, td, a, fn_in.ev) >>
    /\ UNCHANGED <<fn_in, pipeVars, batchVars>>

NextTrigger == EvalTrigger

SpecTrigger == InitTrigger /\ [][NextTrigger]_vars

\* C4: in mixture mode on simulation the event has exactly one assigned
\* catalog path, passes the trigger filter iff both the L1 and the HLT
\* predicate of that path are true, and at most one <path>_pass is true.
MixtureUsesAssignedPathOnly ==
    (fn_out # <<>> /\ ~fn_in.is_data /\ fn_in.mode = "mix") =>
        /\ Len(fn_out[1]) = 1
        /\ fn_out[1][1] \in CatalogKeys(fn_in.trigger_data)
        /\ fn_out[3] <=> (fn_in.ev.l1[fn_out[1][1]] /\ fn_in.ev.hlt[fn_out[1][1]])
        /\ Cardinality(fn_out[2]) <= 1

\* an event rejected in mixture mode although another path than the
\* assigned one fired at both levels
MixtureOtherPathFiredWitness ==
    /\ fn_out # <<>> /\ ~fn_in.is_data /\ fn_in.mode = "mix"
    /\ ~fn_out[3]
    /\ \E k \in CatalogKeys(fn_in.trigger_data) :
          k # fn_out[1][1] /\ fn_in.ev.l1[k] /\ fn_in.ev.hlt[k]

\* C5: in single mode (simulation and data) the event passes iff the target
\* path's L1 and HLT predicates are both true, whatever the other paths'
\* flags are.
SingleIsInclusive ==
    (fn_out # <<>> /\ fn_in.mode = "single") =>
        (fn_out[3] <=> (fn_in.ev.l1[fn_in.target] /\ fn_in.ev.hlt[fn_in.target]))

\* a simulated event kept in single mode although another path fired as well
SingleBothFiredWitness ==
    /\ fn_out # <<>> /\ fn_in.mode = "single" /\ ~fn_in.is_data
    /\ fn_out[3]
    /\ \E k \in CatalogKeys(fn_in.trigger_data) :
          k # fn_in.target /\ fn_in.ev.l1[k] /\ fn_in.ev.hlt[k]

\* ------------------------------------------------------------------------
\* The output path as a function of the input name, the region and the mode
\* ------------------------------------------------------------------------
\* base names of the input: "s", "s.root", "s.root.s", ... (an input need not
\* end in ".root": the script opens whatever path the manifest gives)
BaseNames ==
    {n \in UNION {[1..k -> {"s", ".root"}] : k \in 1..MaxNameLen} : n[1] = "s"}

RegionNames == {"jpsi", "lowq2"}

\* names a trigger path can have in the catalog
TriggerNames == {"A", "B", "mix"}

\* one processing of the sample's region under a mode: mode 'mix' leaves
\* args.target_trigger unread
Writes ==
    [region : RegionNames, mode : {"single"}, target : TriggerNames]
        \cup [region : RegionNames, mode : {"mix"}, target : {"None"}]

InitNames ==
    /\ fn_in \in [basename : BaseNames, writes : [1..2 -> Writes]]
    /\ fn_out = <<>>
    /\ PipeIdle /\ BatchIdle

\* lines 157-162 for the next write of the sample
ComputeOutPath ==
    /\ Len(fn_out) < 2
    /\ LET w == fn_in.writes[Len(fn_out) + 1]
       IN  fn_out' = Append(fn_out, out_path("out", w.region, fn_in.basename, w.mode, w.target))
    /\ UNCHANGED <<fn_in, pipeVars, batchVars>>

NextNames == ComputeOutPath

SpecNames == InitNames /\ [][NextNames]_vars

SameTriggerMode(w1, w2) ==
    /\ w1.mode = w2.mode
    /\ w1.mode = "single" => w1.target = w2.target

\* C10: two outputs of one sample written for different regions or under
\* different trigger modes (mixture, or single with different targets) have
\* different output paths.
OutputPathsNeverCollide ==
    (Len(fn_out) = 2 /\ ( \/ fn_in.writes[1].region # fn_in.writes[2].region
                          \/ ~SameTriggerMode(fn_in.writes[1], fn_in.writes[2]) ))
        => fn_out[1] # fn_out[2]

\* the same, for an input whose base name holds ".root" and targets not
\* named "mix"
OutputPathsDistinctForRootNames ==
    (Len(fn_out) = 2 /\ ( \/ fn_in.writes[1].region # fn_in.writes[2].region
                          \/ ~SameTriggerMode(fn_in.writes[1], fn_in.writes[2]) )
                     /\ (\E i \in 1..Len(fn_in.basename) : fn_in.basename[i] = ".root")
                     /\ (\A i \in 1..2 : fn_in.writes[i].target # "mix"))
        => fn_out[1] # fn_out[2]

\* ------------------------------------------------------------------------
\* process_file on one sample
\* ------------------------------------------------------------------------
Entries == 1..Len(events)

NoCols(n) == [e \in 1..n |-> <<>>]

Stage == StageList(file_info.regions)[si]

\* lines 46-50, 55-126: the input exists and every Define() succeeds; the
\* generator is seeded in mixture mode on simulation
LoadAndDefine ==
    /\ pc = "start"
    /\ file_info.exists
    /\ ~SetupRaises(file_info, config, args)
    /\ gRandom' = IF UsesAssignment(file_info.is_data, args.mode)
                  THEN SetSeed(config.random_seed) ELSE gRandom
    /\ pc' = "loop"
    /\ UNCHANGED <<fnVars, inputVars, loopVars, outVars, run, prev_run, batchVars>>

\* lines 51-53: return [] for a missing input
SkipMissing ==
    /\ pc = "start"
    /\ ~file_info.exists
    /\ pc' = "returned"
    /\ UNCHANGED <<fnVars, inputVars, gRandom, loopVars, outVars, run, prev_run, batchVars>>

\* an exception leaves process_file
SetupFails ==
    /\ pc = "start"
    /\ file_info.exists
    /\ SetupRaises(file_info, config, args)
    /\ pc' = "raised"
    /\ UNCHANGED <<fnVars, inputVars, gRandom, loopVars, outVars, run, prev_run, batchVars>>

\* the entry is through the chain of the running loop
Finished(e, assigned_path) ==
    LET ok == Survives(file_info, config, args, Stage, events[e], assigned_path)
    IN  /\ acc' = IF ok THEN RatAdd(acc, Summand(file_info, config, Stage, events[e])) ELSE acc
        /\ kept' = IF ok THEN kept \cup {e} ELSE kept

\* the entries a free worker can be given: with one worker the tree is read
\* in order; with more, the ranges of the tree are tasks that the pool runs
\* in any order
NextEntries ==
    IF nthreads = 1
    THEN {x \in Entries \ taken : \A y \in Entries \ taken : x <= y}
    ELSE Entries \ taken

\* A worker takes an entry of the tree.  If the chain reads rand for it, the
\* worker enters Rndm() and reads the generator's state; otherwise the entry
\* is done.
TakeEntry ==
    /\ pc = "loop"
    /\ Cardinality(workers) < nthreads
    /\ \E e \in NextEntries :
           /\ taken' = taken \cup {e}
           /\ IF ReadsRand(file_info, config, args, Stage, events[e])
              THEN /\ workers' = workers \cup {[entry |-> e, seen |-> gRandom]}
                   /\ UNCHANGED <<cols, acc, kept>>
              ELSE /\ Finished(e, "")
                   /\ UNCHANGED <<workers, cols>>
    /\ UNCHANGED <<fnVars, inputVars, gRandom, pc, si, outVars, run, prev_run, batchVars>>

\* The worker leaves Rndm(): it writes the state that follows the one it
\* read and gets the draw; assigned_path, the pass columns and the rest of
\* the chain follow.  Rndm() takes no lock: two workers that read the same
\* state get the same draw.
DrawAndFinish ==
    /\ pc = "loop"
    /\ \E w \in workers :
       LET e  == w.entry
           g  == Rndm(w.seen)
           ap == assign_path(<<g, RandGrid>>, config.trigger.fractions)
       IN  /\ gRandom' = g
           /\ workers' = workers \ {w}
           /\ cols' = [cols EXCEPT ![e] = <<g, ap>>]
           /\ first_assign' = IF first_assign[e] = <<>>
                              THEN [first_assign EXCEPT ![e] = <<ap>>] ELSE first_assign
           /\ Finished(e, ap)
    /\ UNCHANGED <<fnVars, inputVars, pc, si, taken, counts, file_results, snapshots,
                   run, prev_run, batchVars>>

CutflowRow_perRegion(region, sow_final) ==
    [Sample_Name |-> file_info.name, Region |-> region,
     Trigger_Mode |-> TriggerModeLabel(args),
     Before |-> counts[1], After_Triplet |-> counts[2], After_Trigger |-> counts[3],
     SumWeights_Trigger |-> counts[4], After_PreselBDT |-> counts[5],
     After_AntiD0 |-> IF region \in DOMAIN config.q2_cuts THEN counts[6] ELSE sow_final,
     After_Q2 |-> sow_final]

\* lines 172-183
CutflowRow(region, sow_final) ==
    [Sample_Name |-> file_info.name, Region |-> region,
     Trigger_Mode |-> TriggerModeLabel(args),
     Before |-> counts[1], After_Triplet |-> counts[2], After_Trigger |-> counts[3],
     SumWeights_Trigger |-> counts[4], After_PreselBDT |-> counts[5],
     After_AntiD0 |-> counts[6], After_Q2 |-> sow_final]

\* the loop is over: GetValue() returns the sum (lines 148-153, 169), the row
\* is appended (172), or the snapshot is on disk (188); the next loop starts
EndLoop ==
    /\ pc = "loop"
    /\ taken = Entries
    /\ workers = {}
    /\ counts' = IF si <= Len(CommonStages) THEN Append(counts, acc) ELSE counts
    /\ file_results' = IF Stage.name = "After_Q2"
                       THEN Append(file_results, CutflowRow(Stage.region, acc))
                       ELSE file_results
    /\ snapshots' = IF Stage.name = "Snapshot"
                    THEN Append(snapshots,
                           [path |-> out_path("out", Stage.region, file_info.basename,
                                              args.mode, args.target_trigger),
                            region |-> Stage.region,
                            rows |-> {[entry |-> e, assigned_path |-> IF cols[e] = <<>> THEN "" ELSE cols[e][2]] : e \in kept}])
                    ELSE snapshots
    /\ IF si = Len(StageList(file_info.regions))
       THEN pc' = "returned" /\ si' = si
       ELSE pc' = pc /\ si' = si + 1
    /\ taken' = {} /\ acc' = RatZero /\ kept' = {}
    /\ cols' = NoCols(Len(events))
    /\ UNCHANGED <<fnVars, inputVars, gRandom, workers, first_assign, run, prev_run, batchVars>>

ProcessFile ==
    \/ LoadAndDefine
    \/ SkipMissing
    \/ SetupFails
    \/ TakeEntry
    \/ DrawAndFinish
    \/ EndLoop

\* ---- inputs ----
PipeKeys == {"A", "B"}

PipeCatalog == << [key |-> "A", frac |-> 1], [key |-> "B", frac |-> 1] >>

\* the bins of the concrete scenario: [0, 5) -> (1.1, 0.05), [5, inf) -> (1.0, 0.0)
PipeBins ==
    << [ptmin |-> 0, ptmax |-> Finite(5), val |-> <<11, 10>>, unc |-> <<1, 20>>],
       [ptmin |-> 5, ptmax |-> Infinite, val |-> <<1, 1>>, unc |-> <<0, 1>>] >>

\* Entries of the input.  An observable that no cut of the run reads (the
\* entry fails an earlier cut) has one value.
PipeEvents ==
    { ev \in [triplet : ObsValues, bdt_score : ObsValues, anti_d0 : ObsValues,
              q2 : ObsValues, l1 : [PipeKeys -> BOOLEAN], hlt : [PipeKeys -> {TRUE}],
              FONLLweight : {<<2, 1>>}, pt : {3}] :
        /\ ev.triplet = 0 => ev.bdt_score = 0 /\ (\A k \in PipeKeys : ev.l1[k])
        /\ ev.bdt_score = 0 => ev.anti_d0 = 0
        /\ ev.anti_d0 = 0 => ev.q2 = 0 }

PipeConfig(seed, bins, missing) ==
    [trigger |-> [fractions |-> PipeCatalog],
     trigger_sf_params |-> [bins |-> bins],
     preselection |-> [triplet |-> {1}, bdt_score |-> {1}, anti_d0 |-> {1}],
     q2_cuts |-> [r \in {"jpsi"} |-> {1}],
     random_seed |-> seed,
     missing |-> missing]

PipeFileInfo(exists, is_data, regions) ==
    [basename |-> <<"s", ".root">>, name |-> "s", exists |-> exists,
     is_data |-> is_data, has_fonll |-> ~is_data, regions |-> regions]

PipeArgs == { [mode |-> "mix", target_trigger |-> "None"],
              [mode |-> "single", target_trigger |-> "A"] }

PipeStart(n) ==
    /\ nthreads = n
    /\ gRandom = 0 /\ pc = "start" /\ si = 1 /\ taken = {}
    /\ workers = {} /\ cols = NoCols(Len(events))
    /\ acc = RatZero /\ kept = {} /\ counts = <<>> /\ file_results = <<>>
    /\ snapshots = <<>> /\ first_assign = NoCols(Len(events)) /\ run = 1 /\ prev_run = <<>>

\* a sample that can be processed
ValidInput ==
    /\ events \in [1..MaxEvents -> PipeEvents]
    /\ \E seed \in 1..MaxSeed : config = PipeConfig(seed, PipeBins, {})
    /\ \E d \in BOOLEAN, rs \in {<<"jpsi", "lowq2">>} : file_info = PipeFileInfo(TRUE, d, rs)
    /\ args \in PipeArgs

\* a sample whose processing ends at once: a missing file, no bins, a target
\* that the catalog lacks
InvalidInput ==
    /\ events \in [1..MaxEvents -> {e \in PipeEvents : e.triplet = 0}]
    /\ \/ /\ config = PipeConfig(1, PipeBins, {})
          /\ file_info = PipeFileInfo(FALSE, FALSE, <<"jpsi">>)
          /\ args \in PipeArgs
       \/ /\ config = PipeConfig(1, <<>>, {})
          /\ file_info = PipeFileInfo(TRUE, FALSE, <<"jpsi">>)
          /\ args \in PipeArgs
       \/ /\ config = PipeConfig(1, PipeBins, {})
          /\ file_info \in {PipeFileInfo(TRUE, d, <<"jpsi">>) : d \in BOOLEAN}
          /\ args = [mode |-> "single", target_trigger |-> "Z"]

Init ==
    /\ FnIdle /\ BatchIdle
    /\ ValidInput \/ InvalidInput
    /\ \E n \in 1..MaxThreads : PipeStart(n)

Next == ProcessFile

Spec == Init /\ [][Next]_vars

\* C7: with non-negative weights the checkpoints of every cutflow row never
\* increase along the pipeline: Before >= After_Triplet >= After_Trigger and
\* SumWeights_Trigger >= After_PreselBDT >= After_AntiD0 >= After_Q2, in
\* every mode, mixture mode included.
RowNarrows(row) ==
    /\ RatLe(row.After_Triplet, row.Before)
    /\ RatLe(row.After_Trigger, row.After_Triplet)
    /\ RatLe(row.After_PreselBDT, row.SumWeights_Trigger)
    /\ RatLe(row.After_AntiD0, row.After_PreselBDT)
    /\ RatLe(row.After_Q2, row.After_AntiD0)

CutflowNarrows ==
    \A i \in 1..Len(file_results) : RowNarrows(file_results[i])

\* the same outside mixture mode on simulation
CutflowNarrowsWithoutAssignment ==
    ~UsesAssignment(file_info.is_data, args.mode) => CutflowNarrows

\* C8: the rows of all regions of the sample carry the same values in every
\* checkpoint before region branching; only After_Q2 may differ.
SameUpstream(r1, r2) ==
    /\ r1.Before = r2.Before
    /\ r1.After_Triplet = r2.After_Triplet
    /\ r1.After_Trigger = r2.After_Trigger
    /\ r1.SumWeights_Trigger = r2.SumWeights_Trigger
    /\ r1.After_PreselBDT = r2.After_PreselBDT
    /\ r1.After_AntiD0 = r2.After_AntiD0

UpstreamCheckpointsShared ==
    \A i, j \in 1..Len(file_results) : SameUpstream(file_results[i], file_results[j])

\* a mixture-mode sample with the rows of two regions that differ in After_Q2
TwoRegionRowsWitness ==
    /\ pc = "returned"
    /\ UsesAssignment(file_info.is_data, args.mode)
    /\ Len(file_results) = 2
    /\ file_results[1].Region # file_results[2].Region
    /\ file_results[1].After_Q2 # file_results[2].After_Q2
    /\ file_results[1].After_AntiD0 # RatZero

\* ------------------------------------------------------------------------
\* The script executed twice on the same input, seed and catalog
\* ------------------------------------------------------------------------
\* entries for the repeated execution: the observables of the triplet and the
\* BDT cut vary; path A fired, path B did not
RerunEvents ==
    [triplet : ObsValues, bdt_score : ObsValues, anti_d0 : {1}, q2 : {1},
     l1 : {[k \in PipeKeys |-> k = "A"]}, hlt : [PipeKeys -> {TRUE}],
     FONLLweight : {<<2, 1>>}, pt : {3}]

\* cut expressions an execution can be configured with
CutChoices ==
    [triplet : {{1}, ObsValues}, bdt_score : {{1}, ObsValues}, anti_d0 : {{1}}]

Q2Choices == { [r \in {"jpsi"} |-> {1}], [r \in {"jpsi"} |-> ObsValues] }

RerunInput ==
    /\ events \in [1..MaxEvents -> RerunEvents]
    /\ \E seed \in 1..MaxSeed : config = PipeConfig(seed, PipeBins, {})
    /\ file_info = PipeFileInfo(TRUE, FALSE, <<"jpsi">>)
    /\ args = [mode |-> "mix", target_trigger |-> "None"]

InitRerun ==
    /\ FnIdle /\ BatchIdle
    /\ RerunInput \/ InvalidInput
    /\ \E n \in 1..MaxThreads : PipeStart(n)

\* The first execution is over; the script is started again, in a new
\* process, on the same manifest, seed and catalog, with the cut expressions
\* and the pool size of this second execution.
Rerun ==
    /\ pc = "returned"
    /\ run = 1
    /\ prev_run' = [first_assign |-> first_assign, preselection |-> config.preselection,
                    q2_cuts |-> config.q2_cuts, nthreads |-> nthreads]
    /\ \E cuts \in CutChoices, q2c \in Q2Choices :
          config' = [config EXCEPT !.preselection = cuts, !.q2_cuts = q2c]
    /\ \E n \in 1..MaxThreads : nthreads' = n
    /\ run' = 2
    /\ gRandom' = 0 /\ pc' = "start" /\ si' = 1 /\ taken' = {}
    /\ workers' = {} /\ cols' = NoCols(Len(events))
    /\ acc' = RatZero /\ kept' = {} /\ counts' = <<>> /\ file_results' = <<>>
    /\ snapshots' = <<>> /\ first_assign' = NoCols(Len(events))
    /\ UNCHANGED <<fnVars, file_info, args, events, batchVars>>

NextRerun == ProcessFile \/ Rerun

SpecRerun == InitRerun /\ [][NextRerun]_vars

\* entries that both executions assigned a path got the same path
SameAssignments ==
    \A e \in Entries :
        (first_assign[e] # <<>> /\ prev_run.first_assign[e] # <<>>)
            => first_assign[e] = prev_run.first_assign[e]

SameCuts ==
    /\ config.preselection = prev_run.preselection
    /\ config.q2_cuts = prev_run.q2_cuts

\* C1: in mixture mode on simulation, for a fixed seed, catalog and input,
\* changing the triplet, BDT-preselection, anti-D0 or q2 cut expressions never
\* changes the path an event is assigned to.  (Both executions read the tree
\* with one worker, so that only the cuts differ.)
AssignmentIndependentOfCuts ==
    (run = 2 /\ nthreads = 1 /\ prev_run.nthreads = 1) => SameAssignments

\* the same, when the two executions share the triplet cut
AssignmentIndependentOfLaterCuts ==
    (run = 2 /\ nthreads = 1 /\ prev_run.nthreads = 1
        /\ config.preselection.triplet = prev_run.preselection.triplet) => SameAssignments

\* C2: for a fixed seed, catalog and input, two executions in mixture mode
\* assign every event the same path, whatever the number of worker threads
\* and the order in which the entries reach them.  (Both executions use the
\* same cuts.)
AssignmentIndependentOfThreads ==
    (run = 2 /\ SameCuts) => SameAssignments

\* the same, with one worker in both executions
AssignmentReproducibleSingleThread ==
    (run = 2 /\ SameCuts /\ nthreads = 1 /\ prev_run.nthreads = 1)
        => (pc = "returned" => first_assign = prev_run.first_assign)

\* ------------------------------------------------------------------------
\* The batch loop of __main__ (lines 203-222)
\* ------------------------------------------------------------------------
\* what process_file does with one entry of the manifest: "skipped" (missing
\* input, returns []), "raised" (an exception leaves it) or "rows"
ProcessOutcome(entry) ==
    IF ~entry.exists THEN "skipped"
    ELSE IF SetupRaises(entry, config, args) THEN "raised"
    ELSE "rows"

\* the rows process_file returns: one per region, in declaration order
ReturnedRows(entry) ==
    [i \in 1..Len(entry.regions) |-> [Sample_Name |-> entry.name, Region |-> entry.regions[i]]]

\* lines 206-207: single mode requires --target_trigger
CheckArgs ==
    /\ batch_pc = "start"
    /\ batch_pc' = IF args.mode = "single" /\ args.target_trigger = "None"
                   THEN "raised" ELSE "loop"
    /\ idx' = 1
    /\ UNCHANGED <<fnVars, pipeVars, sample_list, all_results, cutflow>>

\* lines 210-212: process_file returns and its rows are appended
ProcessEntry ==
    /\ batch_pc = "loop"
    /\ idx <= Len(sample_list)
    /\ ProcessOutcome(sample_list[idx]) # "raised"
    /\ all_results' = IF ProcessOutcome(sample_list[idx]) = "rows"
                      THEN all_results \o ReturnedRows(sample_list[idx])
                      ELSE all_results
    /\ idx' = idx + 1
    /\ UNCHANGED <<fnVars, pipeVars, sample_list, batch_pc, cutflow>>

\* lines 210-211: the call is in no try block, so an exception that leaves
\* process_file leaves the loop and ends the script
ProcessEntryRaises ==
    /\ batch_pc = "loop"
    /\ idx <= Len(sample_list)
    /\ ProcessOutcome(sample_list[idx]) = "raised"
    /\ batch_pc' = "raised"
    /\ UNCHANGED <<fnVars, pipeVars, sample_list, idx, all_results, cutflow>>

\* lines 215-222: the cutflow file is written
WriteCutflow ==
    /\ batch_pc = "loop"
    /\ idx > Len(sample_list)
    /\ cutflow' = <<all_results>>
    /\ batch_pc' = "written"
    /\ UNCHANGED <<fnVars, pipeVars, sample_list, idx, all_results>>

BatchEntries ==
    { [PipeFileInfo(x, d, <<"jpsi", "lowq2">>) EXCEPT !.name = n] :
        x \in BOOLEAN, d \in BOOLEAN, n \in {"s"} }

BatchConfigs ==
    { PipeConfig(1, b, m) : b \in {PipeBins},
                            m \in {{}, {"trigger_sf_params"}, {"trigger"},
                                   {"random_seed"}, {"preselection"}} }

BatchArgs ==
    PipeArgs \cup { [mode |-> "single", target_trigger |-> "Z"],
                    [mode |-> "single", target_trigger |-> "None"] }

InitBatch ==
    /\ FnIdle
    /\ \E n \in 1..MaxSamples :
         \E m \in [1..n -> BatchEntries] :
            sample_list = [i \in 1..n |-> [m[i] EXCEPT !.name = <<"s", i>>]]
    /\ config \in BatchConfigs
    /\ args \in BatchArgs
    /\ file_info = <<>> /\ nthreads = 0 /\ events = <<>>
    /\ gRandom = 0 /\ pc = "" /\ si = 0 /\ taken = {} /\ workers = {} /\ cols = <<>>
    /\ acc = RatZero /\ kept = {} /\ counts = <<>> /\ file_results = <<>>
    /\ snapshots = <<>> /\ first_assign = <<>> /\ run = 0 /\ prev_run = <<>>
    /\ idx = 0 /\ all_results = <<>> /\ batch_pc = "start" /\ cutflow = <<>>

NextBatch == CheckArgs \/ ProcessEntry \/ ProcessEntryRaises \/ WriteCutflow

SpecBatch == InitBatch /\ [][NextBatch]_vars

ArgsAccepted == ~(args.mode = "single" /\ args.target_trigger = "None")

RECURSIVE RowsOfSucceeding(_)
RowsOfSucceeding(list) ==
    IF list = <<>> THEN <<>>
    ELSE (IF ProcessOutcome(Head(list)) = "rows" THEN ReturnedRows(Head(list)) ELSE <<>>)
            \o RowsOfSucceeding(Tail(list))

\* C6: a failure while processing one sample (a missing input, a target that
\* the catalog lacks, a missing config key) never halts the batch: the loop
\* goes on to every later sample and the cutflow file is written with the
\* rows of the samples that succeeded.
SampleFailureNeverHaltsBatch ==
    ArgsAccepted =>
        /\ batch_pc # "raised"
        /\ batch_pc = "written" => cutflow = <<RowsOfSucceeding(sample_list)>>

\* the same, for the one failure the loop survives: a missing input
MissingInputNeverHaltsBatch ==
    (ArgsAccepted /\ \A i \in 1..Len(sample_list) : ProcessOutcome(sample_list[i]) # "raised") =>
        /\ batch_pc # "raised"
        /\ batch_pc = "written" => cutflow = <<RowsOfSucceeding(sample_list)>>

\* ------------------------------------------------------------------------
\* The assignment across the event loops of one sample, and the region rows
\* ------------------------------------------------------------------------
\* C11: in mixture mode the draw and the assigned path of an event are
\* computed once and reused: every later event loop of the sample (the sums
\* of After_Trigger ... After_Q2 and each region's snapshot) sees the path of
\* the first evaluation, and no new draw is taken.
AssignmentComputedOnce ==
    \A e \in 1..Len(cols) :
        cols[e] # <<>> => cols[e][2] = first_assign[e][1]

\* outside mixture mode on simulation no event loop takes a draw
NoDrawWithoutAssignment ==
    (pc # "" /\ file_info # <<>> /\ ~UsesAssignment(file_info.is_data, args.mode)) =>
        /\ gRandom = 0
        /\ \A e \in 1..Len(cols) : cols[e] = <<>>

\* C12: processing a sample whose input exists ends with one cutflow row and
\* one written output per declared region, in declaration order; a region in
\* which no event survives has After_Q2 = 0; a region with no registered q2
\* cut keeps every event of the anti-D0 stage: After_Q2 = After_AntiD0.
PassesAllCuts(ev, region) ==
    /\ PassesCut(ev.triplet, config.preselection.triplet)
    /\ PassesCut(ev.bdt_score, config.preselection.bdt_score)
    /\ PassesCut(ev.anti_d0, config.preselection.anti_d0)
    /\ PassesCut(ev.q2, Q2Cut(config, region))

OneRowAndOutputPerRegion ==
    (pc = "returned" /\ file_info.exists) =>
        /\ Len(file_results) = Len(file_info.regions)
        /\ Len(snapshots) = Len(file_info.regions)
        /\ \A i \in 1..Len(file_info.regions) :
              /\ file_results[i].Region = file_info.regions[i]
              /\ snapshots[i].region = file_info.regions[i]
              /\ (\A e \in 1..Len(events) : ~PassesAllCuts(events[e], file_info.regions[i]))
                    => (file_results[i].After_Q2 = RatZero /\ snapshots[i].rows = {})

RegionRowsAsClaimed ==
    /\ OneRowAndOutputPerRegion
    /\ (pc = "returned" /\ file_info.exists) =>
          \A i \in 1..Len(file_results) :
              file_results[i].Region \notin DOMAIN config.q2_cuts
                  => file_results[i].After_Q2 = file_results[i].After_AntiD0

\* the same outside mixture mode on simulation
RegionRowsAsClaimedWithoutAssignment ==
    (pc # "" /\ file_info # <<>> /\ ~UsesAssignment(file_info.is_data, args.mode))
        => RegionRowsAsClaimed

====
